---- MODULE Spec2Model ----
(***************************************************************************)
(* A model of ttrk (src/src/main.rs): the session log, its JSON file, the  *)
(* display/fixup text format with its formatter and regex parser, the      *)
(* duration formatter and the seven commands.                              *)
(*                                                                         *)
(* Text is modelled as sequences of one-character strings, so that the     *)
(* formatter, the regular expression and the timestamp parser work on      *)
(* characters as the program does.                                         *)
(***************************************************************************)
EXTENDS Integers, Sequences, FiniteSets, TLC

VARIABLES
    disk,    \* content of the log file
    clock,   \* the wall clock: seconds since 1970-01-01T00:00:00Z
    tz,      \* the local UTC offset in seconds that now_local() reports
    cmd,     \* the command line of the last invocation
    out,     \* what the last invocation reported
    arg,     \* input of the function under study (function specifications)
    ret,     \* its result
    pc       \* "call" before the function is applied, "done" after

vars == <<disk, clock, tz, cmd, out, arg, ret, pc>>

-----------------------------------------------------------------------------
(* Bounds of the model.                                                    *)

MaxCompleted == 2       \* SpecSessions: End is disabled past this many completed sessions
MaxEnded == 1           \* Spec: the same, where Fixup adds sessions as well
MaxClock == 1           \* seconds the clock may advance past ClockBase
MaxLines == 2           \* session lines of a fixup text to which a line may be added
MaxPad == 3             \* whitespace characters between [now] and (
DurMax == 7325          \* largest duration given to display_duration
NegDurMax == 5          \* ... and the most negative one, negated
MaxTextLines == 2       \* lines of a text given to parse_log_fmtd
MaxSessions == 2        \* completed sessions of a Status or round-trip input

-----------------------------------------------------------------------------
(* Characters and small text helpers.                                      *)

NL == "\n"
TAB == "\t"
CR == "\r"

DigitChars == <<"0", "1", "2", "3", "4", "5", "6", "7", "8", "9">>
Digits == {DigitChars[i] : i \in 1..10}
LowerCase == {"a", "b", "c", "d", "e", "f", "g", "h", "i", "j", "k", "l", "m",
              "n", "o", "p", "q", "r", "s", "t", "u", "v", "w", "x", "y", "z"}
WhiteSpace == {" ", TAB, NL, CR}

DigitVal(c) == CHOOSE i \in 0..9 : DigitChars[i + 1] = c

RECURSIVE Concat(_)
Concat(ss) == IF ss = <<>> THEN <<>> ELSE Head(ss) \o Concat(Tail(ss))

RECURSIVE Join(_, _)
Join(ss, sep) ==
    IF ss = <<>> THEN <<>>
    ELSE IF Len(ss) = 1 THEN ss[1]
    ELSE ss[1] \o sep \o Join(Tail(ss), sep)

\* "{}" of a non-negative integer
RECURSIVE Itoa(_)
Itoa(n) == IF n < 10 THEN <<DigitChars[n + 1]>>
           ELSE Itoa(n \div 10) \o <<DigitChars[(n % 10) + 1]>>

\* zero-padded decimal of fixed width, the padding of [month], [day], ...
RECURSIVE PadNum(_, _)
PadNum(n, width) ==
    IF width = 0 THEN <<>>
    ELSE PadNum(n \div 10, width - 1) \o <<DigitChars[(n % 10) + 1]>>

\* Rust's integer / and %, which truncate toward zero
TruncDiv(a, b) == IF a >= 0 THEN a \div b ELSE -((-a) \div b)
TruncRem(a, b) == a - b * TruncDiv(a, b)

Abs(n) == IF n < 0 THEN -n ELSE n

SetMax(S) == CHOOSE x \in S : \A y \in S : y <= x
SetMin(S) == CHOOSE x \in S : \A y \in S : x <= y

-----------------------------------------------------------------------------
(* The calendar of OffsetDateTime.                                         *)

is_leap_year(y) == (y % 4 = 0) /\ ((y % 100 # 0) \/ (y % 400 = 0))

days_in_month(y, m) ==
    IF m = 2 THEN (IF is_leap_year(y) THEN 29 ELSE 28)
    ELSE IF m \in {4, 6, 9, 11} THEN 30 ELSE 31

RECURSIVE DaysBeforeMonth(_, _)
DaysBeforeMonth(y, m) ==
    IF m = 1 THEN 0 ELSE DaysBeforeMonth(y, m - 1) + days_in_month(y, m - 1)

\* day of the year, 1-based
ordinal(t) == DaysBeforeMonth(t.year, t.month) + t.day

\* days from 0001-01-01 (day 1, a Monday) to the first day of year y
DaysBeforeYear(y) ==
    365 * (y - 1) + ((y - 1) \div 4) - ((y - 1) \div 100) + ((y - 1) \div 400)

DayNumber(t) == DaysBeforeYear(t.year) + ordinal(t)

EpochDay == DaysBeforeYear(1970) + 1

number_days_from_sunday(t) == DayNumber(t) % 7

sunday_based_week(t) == (ordinal(t) - number_days_from_sunday(t) + 6) \div 7

\* the calendar date of a Time, in its own offset
date(t) == <<t.year, t.month, t.day>>

\* seconds since the Unix epoch: what Sub and Ord of OffsetDateTime compare
unix_timestamp(t) ==
    (DayNumber(t) - EpochDay) * 86400
        + t.hour * 3600 + t.minute * 60 + t.second - t.offset

YearRange == 1971..2037

YearOfDay(dn) ==
    CHOOSE yy \in YearRange :
        DaysBeforeYear(yy) < dn /\ dn <= DaysBeforeYear(yy + 1)

MonthOfOrdinal(y, ord) ==
    CHOOSE mm \in 1..12 :
        /\ DaysBeforeMonth(y, mm) < ord
        /\ ord <= DaysBeforeMonth(y, mm) + days_in_month(y, mm)

CivilOfMonth(y, m, ord, sod, offset) ==
    [year |-> y, month |-> m, day |-> ord - DaysBeforeMonth(y, m),
     hour |-> sod \div 3600, minute |-> (sod % 3600) \div 60,
     second |-> sod % 60, offset |-> offset]

CivilOfYear(y, dn, sod, offset) ==
    CivilOfMonth(y, MonthOfOrdinal(y, dn - DaysBeforeYear(y)),
                 dn - DaysBeforeYear(y), sod, offset)

CivilOfLocal(local, offset) ==
    CivilOfYear(YearOfDay((local \div 86400) + EpochDay),
                (local \div 86400) + EpochDay, local % 86400, offset)

\* the OffsetDateTime of an instant at a UTC offset
to_offset(instant, offset) == CivilOfLocal(instant + offset, offset)

\* end - start, in whole seconds
Elapsed(start, end) == unix_timestamp(end) - unix_timestamp(start)

-----------------------------------------------------------------------------
(* Format descriptions: a sequence of literals and components, interpreted *)
(* by OffsetDateTime::format and OffsetDateTime::parse.                    *)

Lit(cs) == [kind |-> "lit", chars |-> cs, name |-> ""]
Comp(n) == [kind |-> "comp", chars |-> <<>>, name |-> n]

TIMESTAMP_FMT ==
    << Comp("month"), Lit(<<"-">>), Comp("day"), Lit(<<"-">>), Comp("year"),
       Lit(<<" ">>), Comp("hour"), Lit(<<":">>), Comp("minute"), Lit(<<":">>),
       Comp("second"), Lit(<<" ", "(", "U", "T", "C">>),
       Comp("offset_hour"), Lit(<<":">>), Comp("offset_second"), Lit(<<")">>) >>

CSV_TIMESTAMP_FMT ==
    << Comp("year"), Lit(<<"-">>), Comp("month"), Lit(<<"-">>), Comp("day"),
       Lit(<<"T">>), Comp("hour"), Lit(<<":">>), Comp("minute"), Lit(<<":">>),
       Comp("second") >>

time_on_at_fmt ==
    << Lit(<<"o", "n", " ">>), Comp("month"), Lit(<<"-">>), Comp("day"),
       Lit(<<"-">>), Comp("year"), Lit(<<" ", "a", "t", " ">>), Comp("hour"),
       Lit(<<":">>), Comp("minute"), Lit(<<":">>), Comp("second"),
       Lit(<<" ", "(", "U", "T", "C">>),
       Comp("offset_hour"), Lit(<<":">>), Comp("offset_second"), Lit(<<")">>) >>

\* one component of a date-time, as text
FormatComponent(t, name) ==
    CASE name = "month" -> PadNum(t.month, 2)
      [] name = "day" -> PadNum(t.day, 2)
      [] name = "year" -> PadNum(t.year, 4)
      [] name = "hour" -> PadNum(t.hour, 2)
      [] name = "minute" -> PadNum(t.minute, 2)
      [] name = "second" -> PadNum(t.second, 2)
      [] name = "offset_hour" ->       \* sign:mandatory
            <<IF t.offset < 0 THEN "-" ELSE "+">>
                \o PadNum(Abs(TruncDiv(t.offset, 3600)), 2)
      [] name = "offset_minute" ->
            PadNum(Abs(TruncRem(TruncDiv(t.offset, 60), 60)), 2)
      [] name = "offset_second" -> PadNum(Abs(TruncRem(t.offset, 60)), 2)

RECURSIVE Format(_, _)
Format(t, fmt) ==
    IF fmt = <<>> THEN <<>>
    ELSE LET item == Head(fmt)
         IN (IF item.kind = "lit" THEN item.chars
             ELSE FormatComponent(t, item.name)) \o Format(t, Tail(fmt))

\* the components read so far; -1 is "not set"
EmptyParsed ==
    [month |-> -1, day |-> -1, year |-> -1, hour |-> -1, minute |-> -1,
     second |-> -1, offset_sign |-> 1, offset_hour |-> -1,
     offset_minute |-> 0, offset_second |-> 0]

AllDigits(text, pos, n) ==
    pos + n - 1 <= Len(text) /\ \A k \in 0..(n - 1) : text[pos + k] \in Digits

RECURSIVE ReadNum(_, _, _)
ReadNum(text, pos, n) ==
    IF n = 0 THEN 0
    ELSE ReadNum(text, pos, n - 1) * 10 + DigitVal(text[pos + n - 1])

ReadOk(next, parsed) == [ok |-> TRUE, next |-> next, parsed |-> parsed]
ReadFail(pos, parsed) == [ok |-> FALSE, next |-> pos, parsed |-> parsed]

\* reads one component at pos: [ok, next, parsed]
ParseComponent(text, pos, name, parsed) ==
    CASE name = "year" ->
           IF AllDigits(text, pos, 4)
           THEN ReadOk(pos + 4, [parsed EXCEPT !.year = ReadNum(text, pos, 4)])
           ELSE ReadFail(pos, parsed)
      [] name = "offset_hour" ->
           IF pos <= Len(text) /\ text[pos] \in {"+", "-"}
              /\ AllDigits(text, pos + 1, 2)
           THEN ReadOk(pos + 3,
                       [parsed EXCEPT
                           !.offset_sign = IF text[pos] = "-" THEN -1 ELSE 1,
                           !.offset_hour = ReadNum(text, pos + 1, 2)])
           ELSE ReadFail(pos, parsed)
      [] OTHER ->
           IF AllDigits(text, pos, 2)
           THEN ReadOk(pos + 2, [parsed EXCEPT ![name] = ReadNum(text, pos, 2)])
           ELSE ReadFail(pos, parsed)

RECURSIVE ParseItems(_, _, _, _)
RECURSIVE AfterComponent(_, _, _)
AfterComponent(text, rest, r) ==
    IF r.ok THEN ParseItems(text, r.next, rest, r.parsed)
    ELSE [ok |-> FALSE, parsed |-> r.parsed]

ParseItems(text, pos, fmt, parsed) ==
    IF fmt = <<>>
    THEN [ok |-> pos = Len(text) + 1, parsed |-> parsed]
    ELSE LET item == Head(fmt)
         IN IF item.kind = "lit"
            THEN IF /\ pos + Len(item.chars) - 1 <= Len(text)
                    /\ SubSeq(text, pos, pos + Len(item.chars) - 1) = item.chars
                 THEN ParseItems(text, pos + Len(item.chars), Tail(fmt), parsed)
                 ELSE [ok |-> FALSE, parsed |-> parsed]
            ELSE AfterComponent(text, Tail(fmt),
                                ParseComponent(text, pos, item.name, parsed))

\* the date-time of the components read, if they are in range
Validated(ok, p) ==
    IF /\ ok
       /\ p.month \in 1..12
       /\ p.year \in 0..9999
       /\ p.day \in 1..days_in_month(p.year, p.month)
       /\ p.hour \in 0..23 /\ p.minute \in 0..59 /\ p.second \in 0..59
       /\ p.offset_hour \in 0..23
       /\ p.offset_minute \in 0..59 /\ p.offset_second \in 0..59
    THEN [ok |-> TRUE,
          time |-> [year |-> p.year, month |-> p.month, day |-> p.day,
                    hour |-> p.hour, minute |-> p.minute,
                    second |-> p.second,
                    offset |-> p.offset_sign *
                        (p.offset_hour * 3600 + p.offset_minute * 60
                             + p.offset_second)]]
    ELSE [ok |-> FALSE]

ValidatedItems(r) == Validated(r.ok, r.parsed)

\* OffsetDateTime::parse(text, fmt): [ok |-> TRUE, time |-> t] or [ok |-> FALSE]
Parse(text, fmt) == ValidatedItems(ParseItems(text, 1, fmt, EmptyParsed))

-----------------------------------------------------------------------------
(* display_duration                                                        *)

W_hour == <<"h", "o", "u", "r">>
W_minute == <<"m", "i", "n", "u", "t", "e">>
W_second == <<"s", "e", "c", "o", "n", "d">>
W_NA == <<"N", "/", "A">>
CommaSpace == <<",", " ">>

display_duration(duration) ==
    LET seconds == duration
        minutes == TruncDiv(seconds, 60)
        hours == TruncDiv(seconds, 60 * 60)
        c_hours ==
            IF hours = 1 THEN << <<"1", " ">> \o W_hour >>
            ELSE IF hours > 1 THEN << Itoa(hours) \o <<" ">> \o W_hour \o <<"s">> >>
            ELSE <<>>
        c_minutes ==
            IF minutes = 1 THEN << <<"1", " ">> \o W_minute >>
            ELSE IF minutes > 1
                 THEN << Itoa(TruncRem(minutes, 60)) \o <<" ">> \o W_minute \o <<"s">> >>
            ELSE <<>>
        c_seconds ==
            IF seconds = 1 THEN << <<"1", " ">> \o W_second >>
            ELSE IF seconds > 1
                 THEN << Itoa(TruncRem(seconds, 60)) \o <<" ">> \o W_second \o <<"s">> >>
            ELSE <<>>
        c_na == IF duration <= 0 THEN <<W_NA>> ELSE <<>>
    IN Join(c_hours \o c_minutes \o c_seconds \o c_na, CommaSpace)

-----------------------------------------------------------------------------
(* The data model.  Option<T> is a sequence of length at most one.         *)

None == <<>>
Some(x) == <<x>>
is_some(o) == o # <<>>
unwrap(o) == o[1]

Session(start, end, message) ==
    [start |-> start, end |-> end, message |-> message]

Log(completed, current) == [completed |-> completed, current |-> current]

LogDefault == Log(<<>>, None)

-----------------------------------------------------------------------------
(* format_log                                                              *)

Arrow == <<" ", "-", ">", " ">>
NowToken == <<"[", "n", "o", "w", "]">>
NowPadding == [i \in 1..27 |-> " "]

\* writeln!(s, "{} -> {} ({}): {}", ...)
CompletedLine(session) ==
    LET start == session.start
        end == unwrap(session.end)
    IN Format(start, TIMESTAMP_FMT) \o Arrow \o Format(end, TIMESTAMP_FMT)
         \o <<" ", "(">> \o display_duration(Elapsed(start, end))
         \o <<")", ":", " ">> \o unwrap(session.message) \o <<NL>>

\* writeln!(s, "{} -> [now]                           ({})", ...)
CurrentLine(session, now) ==
    Format(session.start, TIMESTAMP_FMT) \o Arrow \o NowToken \o NowPadding
        \o <<"(">> \o display_duration(Elapsed(session.start, now))
        \o <<")", NL>>

format_log(log, now) ==
    Concat([i \in 1..Len(log.completed) |-> CompletedLine(log.completed[i])])
        \o (IF is_some(log.current)
            THEN CurrentLine(unwrap(log.current), now) ELSE <<>>)

-----------------------------------------------------------------------------
(* str::lines and LOG_LINE_REGEX                                           *)

StripCR(line) ==
    IF line # <<>> /\ line[Len(line)] = CR
    THEN SubSeq(line, 1, Len(line) - 1) ELSE line

\* the positions of the line terminators, and of the end of a final line
\* that has no terminator
LineEnds(text) ==
    {i \in 1..Len(text) : text[i] = NL}
        \cup (IF text # <<>> /\ text[Len(text)] # NL THEN {Len(text) + 1} ELSE {})

\* the line that ends at position e: it begins after the previous end
LineEndingAt(text, ends, e) ==
    StripCR(SubSeq(text, 1 + SetMax({0} \cup {p \in ends : p < e}), e - 1))

NthOf(ends, k) == CHOOSE e \in ends : Cardinality({p \in ends : p <= e}) = k

LinesAt(text, ends) ==
    [k \in 1..Cardinality(ends) |-> LineEndingAt(text, ends, NthOf(ends, k))]

\* str::lines(): split at "\n", drop one trailing "\r" of each line; a
\* final line without a line terminator is a line if it is not empty
lines(text) == LinesAt(text, LineEnds(text))

\* [0-9]{2}-[0-9]{2}-[0-9]{4} [0-9]{2}:[0-9]{2}:[0-9]{2} \(UTC[-+][0-9]{2}:[0-9]{2}\)
TimestampPattern ==
    << Digits, Digits, {"-"}, Digits, Digits, {"-"},
       Digits, Digits, Digits, Digits, {" "},
       Digits, Digits, {":"}, Digits, Digits, {":"}, Digits, Digits, {" "},
       {"("}, {"U"}, {"T"}, {"C"}, {"-", "+"}, Digits, Digits, {":"},
       Digits, Digits, {")"} >>

TimestampLen == Len(TimestampPattern)

\* [0-9a-z, ]
DurationClass == Digits \cup LowerCase \cup {",", " "}

PatternAt(line, i, pattern) ==
    /\ i + Len(pattern) - 1 <= Len(line)
    /\ \A k \in 1..Len(pattern) : line[i + k - 1] \in pattern[k]

LiteralAt(line, i, lit) ==
    /\ i + Len(lit) - 1 <= Len(line)
    /\ \A k \in 1..Len(lit) : line[i + k - 1] = lit[k]

\* length of the longest run of characters of class starting at i
RECURSIVE RunLength(_, _, _)
RunLength(line, i, class) ==
    IF i > Len(line) \/ line[i] \notin class THEN 0
    ELSE 1 + RunLength(line, i + 1, class)

\* length of the longest run of `.` (anything but "\n") starting at i
RECURSIVE DotRunLength(_, _)
DotRunLength(line, i) ==
    IF i > Len(line) \/ line[i] = NL THEN 0
    ELSE 1 + DotRunLength(line, i + 1)

NoMatch ==
    [ok |-> FALSE, start |-> <<>>, end_time |-> None, end_current |-> None,
     message |-> None]

\* (?:: (?P<message>.*))? with `: ` expected at i
MessageAt(line, i) ==
    IF LiteralAt(line, i, <<":", " ">>)
    THEN Some(SubSeq(line, i + 2, i + 1 + DotRunLength(line, i + 2)))
    ELSE None

TailClosedAt(line, q, close) ==
    IF LiteralAt(line, q, <<" ", "(">>) /\ LiteralAt(line, close, <<")">>)
    THEN [ok |-> TRUE, message |-> MessageAt(line, close + 1)]
    ELSE [ok |-> FALSE, message |-> None]

\* ` \([0-9a-z, ]*\)(?:: (?P<message>.*))?` matched at q.  The class does
\* not contain ")", so the greedy star has one way to be followed by "\)".
RegexTail(line, q) ==
    TailClosedAt(line, q, q + 2 + RunLength(line, q + 2, DurationClass))

\* (?P<end_time>...) matched at p, the rest of the pattern matched as t
EndTimeMatch(start, end_time, t) ==
    IF t.ok
    THEN [ok |-> TRUE, start |-> start, end_time |-> Some(end_time),
          end_current |-> None, message |-> t.message]
    ELSE NoMatch

\* (?P<end_current>\[now\](\s+)) matched at p: the greedy \s+ takes the
\* most whitespace ks allows, i.e. gives characters back until the rest of
\* the pattern matches
CurrentMatch(line, start, p, after, ks) ==
    IF ks = {} THEN NoMatch
    ELSE [ok |-> TRUE, start |-> start, end_time |-> None,
          end_current |-> Some(SubSeq(line, p, after + SetMax(ks) - 1)),
          message |-> RegexTail(line, after + SetMax(ks)).message]

WhitespaceChoices(line, after) ==
    {k \in 1..RunLength(line, after, WhiteSpace) : RegexTail(line, after + k).ok}

\* the pattern after `(?P<start>...) -> `, at p
AlternationAt(line, start, p) ==
    IF PatternAt(line, p, TimestampPattern)
    THEN EndTimeMatch(start, SubSeq(line, p, p + TimestampLen - 1),
                      RegexTail(line, p + TimestampLen))
    ELSE IF LiteralAt(line, p, NowToken)
    THEN CurrentMatch(line, start, p, p + Len(NowToken),
                      WhitespaceChoices(line, p + Len(NowToken)))
    ELSE NoMatch

\* LOG_LINE_REGEX matched with its first character at i
RegexAt(line, i) ==
    IF PatternAt(line, i, TimestampPattern)
          /\ LiteralAt(line, i + TimestampLen, Arrow)
    THEN AlternationAt(line, SubSeq(line, i, i + TimestampLen - 1),
                       i + TimestampLen + Len(Arrow))
    ELSE NoMatch

LeftmostMatch(line, is) ==
    IF is = {} THEN NoMatch ELSE RegexAt(line, SetMin(is))

\* Regex::captures: the leftmost match, searched from every position (a
\* match begins with a digit, which is looked at first)
captures(line) ==
    LeftmostMatch(line, {i \in 1..Len(line) :
                            line[i] \in Digits /\ RegexAt(line, i).ok})

-----------------------------------------------------------------------------
(* parse_log_fmtd: [ok |-> TRUE, log |-> l] or [ok |-> FALSE, err |-> e]   *)

Ok(log) == [ok |-> TRUE, log |-> log]
Err(e) == [ok |-> FALSE, err |-> e]

\* lines 370-374
CurrentFromLine(start, log) ==
    IF ~start.ok THEN Err("time::error::Parse")
    ELSE Ok([log EXCEPT !.current = Some(Session(start.time, None, None))])

\* lines 380-387
CompletedFromLine(start, end, message, log) ==
    IF ~start.ok \/ ~end.ok THEN Err("time::error::Parse")
    ELSE Ok([log EXCEPT !.completed =
                Append(@, Session(start.time, Some(end.time), Some(message)))])

\* LineFromCaptures that skips a line the pattern does not match
LineFromCaptures_Lenient(caps, log) ==
    IF ~caps.ok THEN Ok(log)
    ELSE IF is_some(caps.end_current) /\ is_some(caps.message)
    THEN Err("Log lines must not have a message if they are current.")
    ELSE IF is_some(caps.end_current)
    THEN IF is_some(log.current)
         THEN Err("There can only be one current log line.")
         ELSE CurrentFromLine(Parse(caps.start, TIMESTAMP_FMT), log)
    ELSE IF ~is_some(caps.message)
    THEN Err("A completed log must have a message.")
    ELSE CompletedFromLine(Parse(caps.start, TIMESTAMP_FMT),
                           Parse(unwrap(caps.end_time), TIMESTAMP_FMT),
                           unwrap(caps.message), log)

\* lines 352-388, on the captures of a line
LineFromCaptures(caps, log) ==
    IF ~caps.ok THEN Err("Failed to parse log line")
    ELSE IF is_some(caps.end_current) /\ is_some(caps.message)
    THEN Err("Log lines must not have a message if they are current.")
    ELSE IF is_some(caps.end_current)
    THEN IF is_some(log.current)
         THEN Err("There can only be one current log line.")
         ELSE CurrentFromLine(Parse(caps.start, TIMESTAMP_FMT), log)
    ELSE IF is_some(caps.end_time)
    THEN IF ~is_some(caps.message)
         THEN Err("A completed log must have a message.")
         ELSE CompletedFromLine(Parse(caps.start, TIMESTAMP_FMT),
                                Parse(unwrap(caps.end_time), TIMESTAMP_FMT),
                                unwrap(caps.message), log)
    ELSE Ok(log)

\* one iteration of the loop over the lines
ParseLine(line, log) ==
    IF (line # <<>> /\ line[1] = "#") \/ line = <<>> THEN Ok(log)
    ELSE LineFromCaptures(captures(line), log)

RECURSIVE ParseLines(_, _)
RECURSIVE AfterLine(_, _)
AfterLine(rest, r) == IF r.ok THEN ParseLines(rest, r.log) ELSE r

ParseLines(ls, log) ==
    IF ls = <<>> THEN Ok(log)
    ELSE AfterLine(Tail(ls), ParseLine(Head(ls), log))

parse_log_fmtd(fmtd) == ParseLines(lines(fmtd), LogDefault)

-----------------------------------------------------------------------------
(* The log file: serde_json with time::serde::rfc3339 timestamps.          *)

\* Rfc3339 text of a Time; it cannot express an offset with seconds
Rfc3339Format(t) ==
    IF TruncRem(t.offset, 60) # 0 \/ t.year \notin 0..9999
    THEN [ok |-> FALSE, text |-> <<>>]
    ELSE [ok |-> TRUE,
          text |-> PadNum(t.year, 4) \o <<"-">> \o PadNum(t.month, 2)
              \o <<"-">> \o PadNum(t.day, 2) \o <<"T">> \o PadNum(t.hour, 2)
              \o <<":">> \o PadNum(t.minute, 2) \o <<":">>
              \o PadNum(t.second, 2)
              \o (IF t.offset = 0 THEN <<"Z">>
                  ELSE FormatComponent(t, "offset_hour") \o <<":">>
                           \o FormatComponent(t, "offset_minute"))]

RFC3339_FMT ==
    << Comp("year"), Lit(<<"-">>), Comp("month"), Lit(<<"-">>), Comp("day"),
       Lit(<<"T">>), Comp("hour"), Lit(<<":">>), Comp("minute"), Lit(<<":">>),
       Comp("second"), Comp("offset_hour"), Lit(<<":">>),
       Comp("offset_minute") >>

Rfc3339Parse(text) ==
    Parse(IF text # <<>> /\ text[Len(text)] = "Z"
          THEN SubSeq(text, 1, Len(text) - 1) \o <<"+", "0", "0", ":", "0", "0">>
          ELSE text,
          RFC3339_FMT)

SessionSerializable(session) ==
    /\ Rfc3339Format(session.start).ok
    /\ is_some(session.end) => Rfc3339Format(unwrap(session.end)).ok

LogSerializable(log) ==
    /\ \A i \in 1..Len(log.completed) : SessionSerializable(log.completed[i])
    /\ is_some(log.current) => SessionSerializable(unwrap(log.current))

SessionToJson(session) ==
    [start |-> Rfc3339Format(session.start).text,
     end |-> IF is_some(session.end)
             THEN Some(Rfc3339Format(unwrap(session.end)).text) ELSE None,
     message |-> session.message]

SessionFromJson(j) ==
    [start |-> Rfc3339Parse(j.start).time,
     end |-> IF is_some(j.end) THEN Some(Rfc3339Parse(unwrap(j.end)).time)
             ELSE None,
     message |-> j.message]

\* serde_json::to_writer(&mut file, &log) on a serializable log
ToJson(log) ==
    [completed |-> [i \in 1..Len(log.completed) |->
                        SessionToJson(log.completed[i])],
     current |-> IF is_some(log.current)
                 THEN Some(SessionToJson(unwrap(log.current))) ELSE None]

\* serde_json::from_str(&old_content) on a document written by ToJson
FromJson(doc) ==
    Log([i \in 1..Len(doc.completed) |-> SessionFromJson(doc.completed[i])],
        IF is_some(doc.current)
        THEN Some(SessionFromJson(unwrap(doc.current))) ELSE None)

\* The file is empty (just created, or truncated), holds a JSON document,
\* or holds the beginning of one that serde_json stopped writing.
EmptyFile == [kind |-> "empty", doc |-> <<>>]
JsonFile(doc) == [kind |-> "json", doc |-> <<doc>>]
PartialFile == [kind |-> "partial", doc |-> <<>>]

\* lines 98-124: read the file and parse it
Load(file) ==
    IF file.kind = "empty" THEN Ok(LogDefault)
    ELSE IF file.kind = "json" THEN Ok(FromJson(file.doc[1]))
    ELSE Err("Failed to parse log file")

\* lines 306-307: file.set_len(0), then stream the JSON into the file; a
\* timestamp that fails to serialize stops the writer after the truncation
Persist(log) ==
    IF LogSerializable(log) THEN JsonFile(ToJson(log)) ELSE PartialFile

-----------------------------------------------------------------------------
(* The commands.  Each returns [ok, log, out]: ok = FALSE is a fatal error *)
(* (main returns Err before line 306).                                     *)

Report(report, detail) == [report |-> report, detail |-> detail]

Done(log, report, detail) ==
    [ok |-> TRUE, log |-> log, out |-> Report(report, detail)]
Fatal(log, report) ==
    [ok |-> FALSE, log |-> log, out |-> Report(report, <<>>)]

contains_newline(message) == \E i \in 1..Len(message) : message[i] = NL

\* BeginLog that starts a new session over the current one
BeginLog_Restart(log, now) ==
    Done([log EXCEPT !.current = Some(Session(now, None, None))],
         IF is_some(log.current) THEN "There is already a current session"
         ELSE "Started a session.", <<>>)

BeginLog(log, now) ==
    IF is_some(log.current)
    THEN Done(log, "There is already a current session",
              <<Format(unwrap(log.current).start, time_on_at_fmt)>>)
    ELSE Done([log EXCEPT !.current = Some(Session(now, None, None))],
              "Started a session.", <<>>)

\* EndSession without the check of line 148
EndSession_Unchecked(taken, sess, message, now) ==
    Done([taken EXCEPT !.completed =
             Append(@, [sess EXCEPT !.end = Some(now),
                                    !.message = Some(message)])],
         "Ended session", <<>>)

\* EndSession that puts the session first instead of last
EndSession_Prepend(taken, sess, message, now) ==
    IF contains_newline(message)
    THEN Fatal(taken, "A message for a completed session must be one line.")
    ELSE Done([taken EXCEPT !.completed =
                  <<[sess EXCEPT !.end = Some(now),
                                 !.message = Some(message)]>> \o @],
              "Ended session", <<>>)

\* lines 147-157, on the session that log.current.take() gave
EndSession(taken, sess, message, now) ==
    IF contains_newline(message)
    THEN Fatal(taken, "A message for a completed session must be one line.")
    ELSE Done([taken EXCEPT !.completed =
                  Append(@, [sess EXCEPT !.end = Some(now),
                                         !.message = Some(message)])],
              "Ended session",
              <<Format(sess.start, time_on_at_fmt),
                display_duration(Elapsed(sess.start, now))>>)

EndLog(log, message, now) ==
    IF is_some(log.current)
    THEN EndSession([log EXCEPT !.current = None], unwrap(log.current),
                    message, now)
    ELSE Done(log, "There is no current session.", <<>>)

CancelLog(log) ==
    IF is_some(log.current)
    THEN Done([log EXCEPT !.current = None], "Canceled session",
              <<Format(unwrap(log.current).start, time_on_at_fmt)>>)
    ELSE Done(log, "There is no current session.", <<>>)

\* lines 188-196: one session added to the totals so far
AddSession(e, start, end, today, thisweek) ==
    [total |-> e.total + Elapsed(start, end),
     today |-> e.today +
         (IF date(start) = today /\ date(end) = today
          THEN Elapsed(start, end) ELSE 0),
     thisweek |-> e.thisweek +
         (IF /\ sunday_based_week(start) = thisweek
             /\ sunday_based_week(end) = thisweek
          THEN Elapsed(start, end) ELSE 0)]

\* lines 182-197: the three totals, in seconds
RECURSIVE StatusTotals(_, _)
StatusTotals(completed, now) ==
    IF completed = <<>> THEN [total |-> 0, today |-> 0, thisweek |-> 0]
    ELSE AddSession(StatusTotals(SubSeq(completed, 1, Len(completed) - 1), now),
                    completed[Len(completed)].start,
                    unwrap(completed[Len(completed)].end),
                    date(now), sunday_based_week(now))

StatusLast(last) ==
    <<Format(last.start, time_on_at_fmt),
      Format(unwrap(last.end), time_on_at_fmt),
      display_duration(Elapsed(last.start, unwrap(last.end))),
      unwrap(last.message)>>

StatusLines(log, now, e) ==
    <<Itoa(Len(log.completed))>>
        \o [i \in 1..3 |-> display_duration(<<e.total, e.today, e.thisweek>>[i])]
        \o (IF log.completed # <<>>
            THEN StatusLast(log.completed[Len(log.completed)]) ELSE <<>>)
        \o (IF is_some(log.current)
            THEN <<Format(unwrap(log.current).start, time_on_at_fmt),
                   display_duration(Elapsed(unwrap(log.current).start, now))>>
            ELSE <<>>)

StatusLog(log, now) ==
    Done(log, "Status", StatusLines(log, now, StatusTotals(log.completed, now)))

ListLog(log, now) == Done(log, "List", <<format_log(log, now)>>)

CsvFields(start, end, seconds, message) ==
    << Format(to_offset(unix_timestamp(start), 0), CSV_TIMESTAMP_FMT),
       Format(to_offset(unix_timestamp(end), 0), CSV_TIMESTAMP_FMT),
       TruncDiv(seconds, 60 * 60), TruncRem(TruncDiv(seconds, 60), 60),
       TruncRem(seconds, 60), message >>

CsvRow(session) ==
    CsvFields(session.start, unwrap(session.end),
              Elapsed(session.start, unwrap(session.end)),
              unwrap(session.message))

CsvLog(log) ==
    Done(log, "Csv", [i \in 1..Len(log.completed) |-> CsvRow(log.completed[i])])

\* The instructional header of the fixup file: lines that start with "#",
\* then one empty line.  One comment line stands for the eighteen.
FixupHeader ==
    <<"#", " ", "H", "e", "r", "e", NL, "#", NL, NL>>

\* what Fixup writes to the temporary file
FixupFile(log, now) == FixupHeader \o format_log(log, now)

FixupParsed(log, parsed) ==
    IF parsed.ok THEN Done(parsed.log, "Successfully edited the log.", <<>>)
    ELSE Fatal(log, "Failed to parse new log.")

\* what Fixup does with the text the editor left in the file
FixupLog(log, edited) == FixupParsed(log, parse_log_fmtd(edited))

-----------------------------------------------------------------------------
(* What the user may do to the fixup file in the editor.                   *)

\* a timestamp as a user types it in the display encoding
TypedStamp(month, day, year, hour, minute, second, sign, oh, om) ==
    PadNum(month, 2) \o <<"-">> \o PadNum(day, 2) \o <<"-">> \o PadNum(year, 4)
        \o <<" ">> \o PadNum(hour, 2) \o <<":">> \o PadNum(minute, 2)
        \o <<":">> \o PadNum(second, 2) \o <<" ", "(", "U", "T", "C", sign>>
        \o PadNum(oh, 2) \o <<":">> \o PadNum(om, 2) \o <<")">>

Spaces(n) == [i \in 1..n |-> " "]

\* the two example lines of the header, lines 252 and 255
ExampleStart == TypedStamp(6, 24, 2022, 16, 55, 46, "-", 5, 0)
ExampleEnd == TypedStamp(6, 24, 2022, 16, 55, 49, "-", 5, 0)
ExampleNowStart == TypedStamp(6, 24, 2022, 17, 21, 10, "-", 5, 0)
ExampleDuration == <<"3", " ", "s", "e", "c", "o", "n", "d", "s">>
ExampleMessage == <<"M", "s", "g">>

TypedCompleted(start, end, duration, message) ==
    start \o Arrow \o end \o <<" ", "(">> \o duration \o <<")">> \o message

TypedCurrent(start, padding, duration, message) ==
    start \o Arrow \o NowToken \o padding \o <<"(">> \o duration \o <<")">>
        \o message

ColonMessage == <<":", " ">> \o ExampleMessage

\* lines a user may add; kind says what the line is by construction
SampleLines ==
    { [kind |-> "completed",
       chars |-> TypedCompleted(ExampleStart, ExampleEnd, ExampleDuration,
                                ColonMessage)],
      [kind |-> "current",
       chars |-> TypedCurrent(ExampleNowStart, Spaces(27), ExampleDuration, <<>>)],
      [kind |-> "comment", chars |-> <<"#", " ", "x">>],
      [kind |-> "blank", chars |-> <<>>],
      [kind |-> "current_with_message",
       chars |-> TypedCurrent(ExampleNowStart, Spaces(2), ExampleDuration,
                              ColonMessage)],
      [kind |-> "completed_without_message",
       chars |-> TypedCompleted(ExampleStart, ExampleEnd, ExampleDuration, <<>>)],
      [kind |-> "unstructured", chars |-> <<"h", "e", "l", "l", "o">>],
      [kind |-> "unstructured",
       chars |-> ExampleStart \o <<" ", "-", " ">> \o ExampleEnd
                     \o <<" ", "(", ")">> \o ColonMessage],
      [kind |-> "invalid_date",
       chars |-> TypedCompleted(TypedStamp(6, 32, 2022, 16, 55, 46, "-", 5, 0),
                                ExampleEnd, ExampleDuration, ColonMessage)],
      [kind |-> "invalid_date",
       chars |-> TypedCurrent(TypedStamp(2, 29, 2022, 16, 55, 46, "-", 5, 0),
                              Spaces(2), <<>>, <<>>)],
      [kind |-> "completed_offset_minutes",
       chars |-> TypedCompleted(TypedStamp(6, 24, 2022, 16, 55, 46, "+", 5, 30),
                                TypedStamp(6, 24, 2022, 16, 55, 49, "+", 5, 30),
                                <<>>, ColonMessage)] }

Keep == [kind |-> "keep", index |-> 0, line |-> <<>>]
Drop(k) == [kind |-> "drop", index |-> k, line |-> <<>>]
Add(line) == [kind |-> "add", index |-> 0, line |-> line]
Rotate == [kind |-> "rotate", index |-> 0, line |-> <<>>]

HeaderLineCount == Len(lines(FixupHeader))

Unlines(ls) == Concat([i \in 1..Len(ls) |-> ls[i] \o <<NL>>])

\* the lines the model lets the user add in the editor
EditorLines ==
    {l \in SampleLines :
        l.kind \in {"completed", "current", "comment", "current_with_message",
                    "completed_offset_minutes"}}

EditsOfCount(n) ==
    {Keep} \cup {Drop(k) : k \in 1..n}
        \cup (IF n < MaxLines THEN {Add(l.chars) : l \in EditorLines} ELSE {})
        \cup (IF n >= 2 THEN {Rotate} ELSE {})

\* the edits the model lets the user make to a file with the given text
EditsOf(text) == EditsOfCount(Len(lines(text)) - HeaderLineCount)

EditLines(edit, ls, h) ==
    IF edit.kind = "drop"
    THEN SubSeq(ls, 1, h + edit.index - 1) \o SubSeq(ls, h + edit.index + 1, Len(ls))
    ELSE SubSeq(ls, 1, h) \o <<ls[Len(ls)]>> \o SubSeq(ls, h + 1, Len(ls) - 1)

\* the text the editor leaves in the file
ApplyEdit(edit, text) ==
    CASE edit.kind = "keep" -> text
      [] edit.kind = "add" -> text \o edit.line \o <<NL>>
      [] OTHER -> Unlines(EditLines(edit, lines(text), HeaderLineCount))

-----------------------------------------------------------------------------------------------------------------------------------------------------
(* main: load the log, run one command, persist the log.                   *)

Command(op, message, edit) == [op |-> op, message |-> message, edit |-> edit]

\* lines 306-308: the file after the rewrite, and what was reported
Written(file, report) ==
    [disk |-> file,
     out |-> IF file.kind = "partial"
             THEN Report("Failed to write to log file", <<>>) ELSE report]

\* main that rewrites the file also after a fatal error of the command
main_WritesAfterFatal(file, loaded, r) ==
    IF ~loaded.ok THEN [disk |-> file, out |-> Report(loaded.err, <<>>)]
    ELSE Written(Persist(r.log), r.out)

\* main on a file, given what loading it gave and what the command returned
\* on the loaded log: [disk, out] after the invocation.  A failed load
\* (line 123) or a fatal error of the command returns before line 306.
main(file, loaded, r) ==
    IF ~loaded.ok THEN [disk |-> file, out |-> Report(loaded.err, <<>>)]
    ELSE IF ~r.ok THEN [disk |-> file, out |-> r.out]
    ELSE Written(Persist(r.log), r.out)

\* 2022-06-24T21:55:46Z, the start of the header's example line
ClockBase == 1656107746

\* the local offset: -05:00 as in the header's examples
LocalOffsets == {-18000}

\* ... and, for Begin, End and Cancel alone, also one with minutes, +05:30
SessionOffsets == {-18000, 19800}

get_time == to_offset(clock, tz)

\* messages given to End: one line, and two lines
Messages == {<<"a">>, <<"a", NL, "b">>}

NoEdit == Keep

CurrentOf(loaded) == IF loaded.ok THEN loaded.log.current ELSE None
CompletedOf(loaded) == IF loaded.ok THEN loaded.log.completed ELSE <<>>

HasCurrent(file) == is_some(CurrentOf(Load(file)))
CompletedCount(file) == Len(CompletedOf(Load(file)))

Effect(command, o) ==
    /\ cmd' = command
    /\ disk' = o.disk
    /\ out' = o.out
    /\ UNCHANGED <<clock, tz, arg, ret, pc>>

\* One invocation of the program: loaded is what loading the file gave and
\* r the command's result on the loaded log (read only if the load succeeded).
Invoke(command, loaded, r) == Effect(command, main(disk, loaded, r))

BeginOn(loaded, now) ==
    Invoke(Command("Begin", <<>>, NoEdit), loaded, BeginLog(loaded.log, now))

Begin == BeginOn(Load(disk), get_time)

EndOn(loaded, now, bound) ==
    \E message \in Messages :
        /\ is_some(CurrentOf(loaded)) /\ ~contains_newline(message)
              => Len(CompletedOf(loaded)) < bound
        /\ Invoke(Command("End", message, NoEdit), loaded,
                  EndLog(loaded.log, message, now))

End == EndOn(Load(disk), get_time, MaxEnded)

EndSessions == EndOn(Load(disk), get_time, MaxCompleted)

CancelOn(loaded) ==
    Invoke(Command("Cancel", <<>>, NoEdit), loaded, CancelLog(loaded.log))

Cancel == CancelOn(Load(disk))

StatusOn(loaded, now) ==
    Invoke(Command("Status", <<>>, NoEdit), loaded, StatusLog(loaded.log, now))

Status == StatusOn(Load(disk), get_time)

ListOn(loaded, now) ==
    Invoke(Command("List", <<>>, NoEdit), loaded, ListLog(loaded.log, now))

List == ListOn(Load(disk), get_time)

CsvOn(loaded) == Invoke(Command("Csv", <<>>, NoEdit), loaded, CsvLog(loaded.log))

Csv == CsvOn(Load(disk))

\* the text Fixup hands to the editor
FixupText(loaded, now) ==
    IF loaded.ok THEN FixupFile(loaded.log, now) ELSE <<>>

\* Fixup, the editor having been given text
FixupEdited(loaded, text) ==
    \E edit \in (IF loaded.ok THEN EditsOf(text) ELSE {Keep}) :
        Invoke(Command("Fixup", <<>>, edit), loaded,
               FixupLog(loaded.log, ApplyEdit(edit, text)))

FixupOn(loaded, now) == FixupEdited(loaded, FixupText(loaded, now))

Fixup == FixupOn(Load(disk), get_time)

\* a second passes
Tick ==
    /\ clock < ClockBase + MaxClock
    /\ clock' = clock + 1
    /\ UNCHANGED <<disk, tz, cmd, out, arg, ret, pc>>

NoCommand == Command("", <<>>, NoEdit)

InitIn(offsets) ==
    /\ disk = EmptyFile
    /\ clock = ClockBase
    /\ tz \in offsets
    /\ cmd = NoCommand
    /\ out = Report("", <<>>)
    /\ arg = <<>>
    /\ ret = <<>>
    /\ pc = "main"

Init == InitIn(LocalOffsets)

Next == Begin \/ End \/ Cancel \/ Status \/ List \/ Csv \/ Fixup \/ Tick

Spec == Init /\ [][Next]_vars

-----------------------------------------------------------------------------
(* Specifications of the pure functions: Init draws an input, the one      *)
(* action applies the function to it.                                      *)

Idle ==
    /\ disk = EmptyFile
    /\ clock = ClockBase
    /\ tz = 0
    /\ cmd = NoCommand
    /\ out = Report("", <<>>)

Call(result) ==
    /\ pc = "call"
    /\ ret' = result
    /\ pc' = "done"
    /\ UNCHANGED <<disk, clock, tz, cmd, out, arg>>

FnInit(inputs) ==
    /\ Idle
    /\ arg \in inputs
    /\ ret = <<>>
    /\ pc = "call"

\* ---- display_duration ----

DurationInit == FnInit((-NegDurMax)..DurMax)
DurationCall == Call(display_duration(arg))
SpecDuration == DurationInit /\ [][DurationCall]_vars

\* ---- TIMESTAMP_FMT: format, then parse ----

Time(year, month, day, hour, minute, second, offset) ==
    [year |-> year, month |-> month, day |-> day, hour |-> hour,
     minute |-> minute, second |-> second, offset |-> offset]

\* whole-minute offsets: UTC, -05:00, +05:30, -03:30, +05:45
WholeMinuteOffsets == {0, -18000, 19800, -12600, 20700}

TimeInputs ==
    {Time(2022, 1, 1, h, mi, sec, o) :
        h \in {0, 23}, mi \in {0, 55}, sec \in {0, 59}, o \in WholeMinuteOffsets}
    \cup {Time(2024, 2, 29, h, mi, sec, o) :
        h \in {0, 23}, mi \in {0, 55}, sec \in {0, 59}, o \in WholeMinuteOffsets}
    \cup {Time(y, 6, 24, 16, 55, 46, o) :
        y \in {1999, 2022}, o \in WholeMinuteOffsets}
    \cup {Time(2022, 12, 31, h, mi, sec, o) :
        h \in {0, 23}, mi \in {0, 55}, sec \in {0, 59}, o \in WholeMinuteOffsets}

RenderAndParse(text) == [text |-> text, parsed |-> Parse(text, TIMESTAMP_FMT)]

TimestampInit == FnInit(TimeInputs)
TimestampCall == Call(RenderAndParse(Format(arg, TIMESTAMP_FMT)))
SpecTimestamp == TimestampInit /\ [][TimestampCall]_vars

\* ---- format_log, then parse_log_fmtd ----

SeqsUpTo(S, n) == UNION {[1..k -> S] : k \in 0..n}

RoundTripT0 == Time(2022, 6, 24, 16, 55, 46, -18000)
RoundTripT1 == Time(2022, 6, 24, 16, 55, 49, -18000)
RoundTripT2 == Time(2022, 6, 24, 18, 0, 0, 19800)

RoundTripSessions ==
    {Session(se[1], Some(se[2]), Some(m)) :
        se \in {<<RoundTripT0, RoundTripT0>>, <<RoundTripT0, RoundTripT1>>,
                <<RoundTripT1, RoundTripT1>>, <<RoundTripT2, RoundTripT2>>},
        m \in {<<>>, <<"a">>, <<"a", ":", " ", "b">>}}

RoundTripInputs ==
    {[log |-> Log(c, cur), now |-> now] :
        c \in SeqsUpTo(RoundTripSessions, MaxSessions),
        cur \in {None, Some(Session(RoundTripT0, None, None)),
                 Some(Session(RoundTripT2, None, None))},
        now \in {RoundTripT0, RoundTripT1}}

RoundTripInit == FnInit(RoundTripInputs)
RoundTripCall == Call(parse_log_fmtd(format_log(arg.log, arg.now)))
SpecRoundTrip == RoundTripInit /\ [][RoundTripCall]_vars

\* ---- parse_log_fmtd on typed text ----

\* every padding of 1..MaxPad spaces and tabs between [now] and (
Paddings == UNION {[1..k -> {" ", TAB}] : k \in 1..MaxPad}

PaddedCurrentLines ==
    {[kind |-> "padded_current",
      chars |-> TypedCurrent(ExampleNowStart, pad, ExampleDuration, <<>>)] :
        pad \in Paddings}

\* a text is a sequence of lines; the parser is given their characters
ParseInputs ==
    (SeqsUpTo(SampleLines, MaxTextLines) \ {<<>>})
        \cup {<<l>> : l \in PaddedCurrentLines}

TextOf(tagged) == Unlines([i \in 1..Len(tagged) |-> tagged[i].chars])

ParseInit == FnInit(ParseInputs)
ParseCall == Call(parse_log_fmtd(TextOf(arg)))
SpecParse == ParseInit /\ [][ParseCall]_vars

\* ---- the totals of Status ----

StatusSessions ==
    {Session(se[1], Some(se[2]), Some(<<"a">>)) :
        se \in {\* Monday and Friday of the week of Friday 2022-06-24
                <<Time(2022, 6, 20, 10, 0, 0, -18000),
                  Time(2022, 6, 20, 11, 0, 0, -18000)>>,
                <<Time(2022, 6, 24, 9, 0, 0, -18000),
                  Time(2022, 6, 24, 9, 30, 0, -18000)>>,
                \* the week before
                <<Time(2022, 6, 14, 10, 0, 0, -18000),
                  Time(2022, 6, 14, 10, 0, 5, -18000)>>,
                \* from the Saturday before into the week
                <<Time(2022, 6, 18, 23, 0, 0, -18000),
                  Time(2022, 6, 19, 1, 0, 0, -18000)>>,
                \* the year before
                <<Time(2021, 6, 22, 10, 0, 0, -18000),
                  Time(2021, 6, 22, 10, 0, 7, -18000)>>,
                <<Time(2021, 6, 24, 10, 0, 0, -18000),
                  Time(2021, 6, 24, 10, 1, 0, -18000)>>}}

StatusNows ==
    {Time(2022, 6, 24, 16, 55, 46, -18000), Time(2022, 6, 26, 8, 0, 0, -18000),
     Time(2022, 6, 14, 12, 0, 0, -18000)}

StatusInputs ==
    {[completed |-> c, now |-> now] :
        c \in SeqsUpTo(StatusSessions, MaxSessions), now \in StatusNows}

StatusInit == FnInit(StatusInputs)
StatusCall == Call(StatusTotals(arg.completed, arg.now))
SpecStatus == StatusInit /\ [][StatusCall]_vars

\* ---- Begin, End and Cancel alone ----

SessionsInit == InitIn(SessionOffsets)

NextSessions == Begin \/ EndSessions \/ Cancel \/ Tick

SpecSessions == SessionsInit /\ [][NextSessions]_vars

-----------------------------------------------------------------------------
(* The claims.                                                             *)

\* C1: parse_log_fmtd(format_log(log)) succeeds and gives back the log: the
\* same completed sessions in the same order and the same current session.
C1_RoundTrip == pc = "done" => ret = Ok(arg.log)

\* the display encoding MM-DD-YYYY HH:MM:SS (UTC+/-HH:MM) of a Time
DisplayEncoding(t) ==
    TypedStamp(t.month, t.day, t.year, t.hour, t.minute, t.second,
               IF t.offset < 0 THEN "-" ELSE "+",
               Abs(t.offset) \div 3600, (Abs(t.offset) \div 60) % 60)

\* C2: a Time rendered with TIMESTAMP_FMT is its display encoding, with the
\* hours and minutes of its offset, and parsing the text back with
\* TIMESTAMP_FMT gives the same Time, offset included.
C2_DisplayRoundTrip ==
    pc = "done" =>
        /\ ret.text = DisplayEncoding(arg)
        /\ ret.parsed = [ok |-> TRUE, time |-> arg]

ReferenceClause(value, noun) ==
    IF value = 0 THEN <<>>
    ELSE IF value = 1 THEN << <<"1", " ">> \o noun >>
    ELSE << Itoa(value) \o <<" ">> \o noun \o <<"s">> >>

\* the reference formatter of section 4.1
ReferenceDuration(seconds) ==
    IF seconds <= 0 THEN W_NA
    ELSE Join(ReferenceClause(seconds \div 3600, W_hour)
                  \o ReferenceClause((seconds \div 60) % 60, W_minute)
                  \o ReferenceClause(seconds % 60, W_second),
              CommaSpace)

\* C3: display_duration equals the reference formatter: hours, minutes mod
\* 60 and seconds mod 60, each clause present only if its value is at least
\* 1, singular for 1 and plural above, and "N/A" for a duration <= 0.
C3_DurationReference == pc = "done" => ret = ReferenceDuration(arg)

RejectedKinds ==
    {"current_with_message", "completed_without_message", "unstructured",
     "invalid_date"}

HasRejectedLine(tagged) ==
    \E i \in 1..Len(tagged) : tagged[i].kind \in RejectedKinds

\* the lines that are a well-formed [now] line
NowLines(tagged) == {i \in 1..Len(tagged) : tagged[i].kind = "current"}

\* C4: parse_log_fmtd returns an error, and no log, for a text that has,
\* anywhere among its lines, a [now] line with a message, a second [now]
\* line, a line with an end time and no message, a line that does not match
\* the pattern, or a line with a timestamp that is no calendar date.
C4_ParserRejects ==
    (pc = "done" /\ (HasRejectedLine(arg) \/ Cardinality(NowLines(arg)) >= 2))
        => (~ret.ok /\ DOMAIN ret = {"ok", "err"})

\* a rejected line after a line that by itself gives a completed session
C4_Witness ==
    /\ pc = "done"
    /\ Len(arg) = 2
    /\ arg[1].kind = "completed"
    /\ arg[2].kind = "invalid_date"
    /\ ~ret.ok

ExampleNowTime == Time(2022, 6, 24, 17, 21, 10, -18000)

\* C5: a line `<start> -> [now]<whitespace>(<duration>)` gives a current
\* session with that start, whatever the amount of whitespace (one or more
\* characters).
C5_AnyPadding ==
    (pc = "done" /\ Len(arg) = 1 /\ arg[1].kind = "padded_current")
        => ret = Ok(Log(<<>>, Some(Session(ExampleNowTime, None, None))))

WellFormed(log) ==
    /\ is_some(log.current) =>
          /\ unwrap(log.current).end = None
          /\ unwrap(log.current).message = None
    /\ \A i \in 1..Len(log.completed) :
          /\ is_some(log.completed[i].end)
          /\ is_some(log.completed[i].message)
          /\ ~contains_newline(unwrap(log.completed[i].message))

WellFormedIfLoaded(loaded) == loaded.ok => WellFormed(loaded.log)

\* C6: every log that the file holds is well-formed: its current session,
\* if any, has no end and no message, and each completed session has an end
\* and a message of one line.
C6_LogWellFormed == WellFormedIfLoaded(Load(disk))

\* Fixup has replaced the log by one with a completed and a current session
C6_Witness ==
    /\ cmd.op = "Fixup"
    /\ out.report = "Successfully edited the log."
    /\ HasCurrent(disk)
    /\ CompletedCount(disk) >= 1

Ordered(completed) ==
    /\ \A i \in 1..Len(completed) :
          unix_timestamp(completed[i].start)
              <= unix_timestamp(unwrap(completed[i].end))
    /\ \A i, j \in 1..Len(completed) :
          i < j => unix_timestamp(unwrap(completed[i].end))
                       <= unix_timestamp(unwrap(completed[j].end))

EndAppends(before, after, message, now) ==
    (is_some(before.log.current) /\ ~contains_newline(message))
        => /\ after.log.completed =
                  Append(before.log.completed,
                         Session(unwrap(before.log.current).start, Some(now),
                                 Some(message)))
           /\ after.log.current = None

C7_Step ==
    /\ (clock' = clock /\ cmd'.op = "End")
           => EndAppends(Load(disk), Load(disk'), cmd'.message, get_time)
    /\ Ordered(Load(disk').log.completed)

\* C7: End with a one-line message, a session started at T1 being current,
\* appends {T1, now, message} as the last completed session, leaves the
\* earlier ones as they were and leaves no current session; over Begin, End
\* and Cancel with a clock that does not go back, completed stays ordered
\* by end time and every completed session has start <= end.
C7_EndAppends == [][C7_Step]_vars

\* two sessions were ended, the second one later than the first
C7_Witness ==
    /\ cmd.op = "End"
    /\ out.report = "Ended session"
    /\ CompletedCount(disk) = 2
    /\ unix_timestamp(unwrap(CompletedOf(Load(disk))[1].end))
           < unix_timestamp(unwrap(CompletedOf(Load(disk))[2].end))

PreconditionError(command, loaded) ==
    /\ loaded.ok
    /\ \/ command.op = "Begin" /\ is_some(loaded.log.current)
       \/ command.op \in {"End", "Cancel"} /\ ~is_some(loaded.log.current)

C8_Step ==
    (clock' = clock /\ PreconditionError(cmd', Load(disk)))
        => /\ Load(disk') = Load(disk)
           /\ out'.report \in {"There is already a current session",
                               "There is no current session."}

\* C8: Begin with a current session, and End or Cancel without one, only
\* report a message: the log persisted by the invocation is the log that
\* was loaded.
C8_PreconditionErrors == [][C8_Step]_vars

\* a second Begin, later than the start of the current session
C8_Witness ==
    /\ cmd.op = "Begin"
    /\ out.report = "There is already a current session"
    /\ HasCurrent(disk)
    /\ unix_timestamp(unwrap(CurrentOf(Load(disk))).start) < clock

EditedFails(command, loaded, now) ==
    ~parse_log_fmtd(ApplyEdit(command.edit, FixupText(loaded, now))).ok

\* the fatal errors as the claim lists them
FatalAsClaimed(command, loaded, now) ==
    \/ ~loaded.ok
    \/ command.op = "End" /\ contains_newline(command.message)
    \/ command.op = "Fixup" /\ EditedFails(command, loaded, now)

\* the fatal errors of the code: the message of End is looked at only when
\* there is a current session
FatalInCode(command, loaded, now) ==
    \/ ~loaded.ok
    \/ /\ command.op = "End"
       /\ contains_newline(command.message)
       /\ is_some(loaded.log.current)
    \/ command.op = "Fixup" /\ EditedFails(command, loaded, now)

C9_ClaimedStep ==
    (clock' = clock /\ cmd'.op # "" /\ FatalAsClaimed(cmd', Load(disk), get_time))
        => disk' = disk

C9_Step ==
    (clock' = clock /\ cmd'.op # "" /\ FatalInCode(cmd', Load(disk), get_time))
        => disk' = disk

\* C9 as claimed: an End with a message of several lines, a Fixup whose
\* edited text fails to parse, or a file that fails to load, aborts before
\* the file is rewritten: the file is as it was.
C9_FatalNeverWrites == [][C9_ClaimedStep]_vars

\* C9 as amended: the same, for an End with a message of several lines
\* given while there is a current session.
C9_AbortNeverWrites == [][C9_Step]_vars

\* End was refused for its message and the session is still current on disk
C9_Witness ==
    /\ cmd.op = "End"
    /\ contains_newline(cmd.message)
    /\ out.report = "A message for a completed session must be one line."
    /\ HasCurrent(disk)

\* the calendar week (Sunday to Saturday) and day of t are those of now
InWeekOf(t, now) ==
    DayNumber(t) - number_days_from_sunday(t)
        = DayNumber(now) - number_days_from_sunday(now)
OnDayOf(t, now) == DayNumber(t) = DayNumber(now)

RECURSIVE SumElapsed(_, _)
SumElapsed(completed, indices) ==
    IF indices = {} THEN 0
    ELSE Elapsed(completed[SetMax(indices)].start,
                 unwrap(completed[SetMax(indices)].end))
             + SumElapsed(completed, indices \ {SetMax(indices)})

WeekSessions(completed, now) ==
    {i \in 1..Len(completed) :
        /\ InWeekOf(completed[i].start, now)
        /\ InWeekOf(unwrap(completed[i].end), now)}

DaySessions(completed, now) ==
    {i \in 1..Len(completed) :
        /\ OnDayOf(completed[i].start, now)
        /\ OnDayOf(unwrap(completed[i].end), now)}

\* C10: Status adds a session to the total of this week only if its start
\* and its end are in the calendar week of the evaluation instant, and to
\* the total of today only if both are on its calendar day: a session of
\* another week, of this or another year, adds nothing.
C10_WeekTotal ==
    pc = "done" =>
        /\ ret.thisweek
               <= SumElapsed(arg.completed, WeekSessions(arg.completed, arg.now))
        /\ ret.today
               <= SumElapsed(arg.completed, DaySessions(arg.completed, arg.now))

====
